---- MODULE Spec2Model ----
(***************************************************************************)
(* A model of broken-link-checker's page scan orchestrator (HtmlChecker),  *)
(* its URL check queue (UrlChecker) and the HTML link scraper              *)
(* (scrapeHtml).                                                           *)
(*                                                                         *)
(* HtmlChecker and UrlChecker are translated from lib/public; the request  *)
(* queue, the URL cache, checkUrl and Link, which lib/public only calls,   *)
(* are modelled from the specification (sections 4.2 and 4.3).            *)
(***************************************************************************)
EXTENDS Integers, Sequences, FiniteSets, TLC

\* ------------------------------------------------------------------ bounds
MaxLinks == 2      \* candidate Links per scanned document
MaxScans == 2      \* accepted scans per behaviour
MaxItems == 2      \* direct UrlChecker.enqueue() calls per behaviour
MaxTime  == 1      \* ticks of the clock the cache expiry is measured on
MaxNodes == 2      \* child elements of <html> in a scraped document

\* ------------------------------------------------------------- value sets
Urls      == {"u1", "u2"}
InvalidUrl == "invalid"
HostOf(url) == IF url = "u1" THEN "h1" ELSE "h2"
Outcomes  == {"ok", "broken"}
NoOutcome == "none"
NoAuth    == "null"
Undefined == "undefined"

\* parseOptions() results the model runs under: the queue and cache tuning and
\* the exclusion options read by maybeExcludeLink.
BaseOptions ==
  [maxSockets |-> 1, maxSocketsPerHost |-> 1, cacheExpiryTime |-> 1,
   excludeExternalLinks |-> TRUE, excludeInternalLinks |-> FALSE,
   excludeLinksToSamePage |-> FALSE, excludedSchemes |-> {"mailto:"},
   excludedKeywords |-> {}, honorRobotExclusions |-> FALSE]
OptionSets ==
  { BaseOptions,
    [BaseOptions EXCEPT !.maxSockets = 2,
                        !.excludeExternalLinks = FALSE,
                        !.honorRobotExclusions = TRUE] }

\* ------------------------------------------------------------------ state
VARIABLES
  options,       \* HtmlChecker.options / the options UrlChecker was built with
  active,        \* HtmlChecker.active
  auth,          \* HtmlChecker.auth
  baseUrl,       \* HtmlChecker.baseUrl
  robots,        \* HtmlChecker.robots
  excludedLinks, \* HtmlChecker.excludedLinks
  parsed,        \* HtmlChecker.parsed
  pendingParse,  \* the parseHtml() promise of the running scan is unsettled
  doc,           \* the document handed to the accepted scan
  scanLinks,     \* the Links of the current scan, as stamped and notified so far
  items,         \* linkQueue: the waiting and the active items, in enqueue order
  nextId,        \* linkQueue: the id the next item gets
  paused,        \* linkQueue is paused
  cache,         \* UrlChecker.cache
  now,           \* the clock
  ret,           \* the value the last API call returned
  emitted,       \* the notifications the last step emitted, in order
  accepted,      \* number of scan() calls that returned true
  completes,     \* number of "complete" notifications emitted
  ends,          \* number of UrlChecker "end" notifications emitted
  lastCheck,     \* per URL, the last outcome a check fetched afresh, and when
  call,          \* the arguments of the pure function a specification applies
  result         \* and what it returned

hvars == <<active, auth, baseUrl, robots, excludedLinks, parsed>>
qvars == <<items, nextId, paused, cache>>
pvars == <<call, result>>
NoCall == [fn |-> "none"]
vars  == <<options, active, auth, baseUrl, robots, excludedLinks, parsed,
           pendingParse, doc, scanLinks, items, nextId, paused, cache, now, ret,
           emitted, accepted, completes, ends, lastCheck, call, result>>

\* F applied to the value of v (v is evaluated once, before F).
Let(v, F(_)) == CHOOSE r \in {F(x) : x \in {v}} : TRUE

\* ------------------------------------------------------------------ Links
\* A candidate Link as scrapeHtml/Link.resolve hand it to the orchestrator.
\* internal and samePage are "true", "false" or "null" (not resolved).
TriState == {"true", "false", "null"}
NotExcluded == "false"      \* maybeExcludeLink's `false`

\* opts.tags[opts.filterLevel]: the (tag, attribute) pairs treated as links.
TagTable == {<<"a", "href">>, <<"img", "src">>}

\* customFilter results: a boolean, or the undocumented object form.
FilterTrue  == [isObject |-> FALSE, truthy |-> TRUE,  excluded |-> FALSE, excludedReason |-> "none"]
FilterFalse == [isObject |-> FALSE, truthy |-> FALSE, excluded |-> FALSE, excludedReason |-> "none"]
FilterObjIn == [isObject |-> TRUE,  truthy |-> TRUE,  excluded |-> FALSE, excludedReason |-> "none"]
FilterObjEx == [isObject |-> TRUE,  truthy |-> TRUE,  excluded |-> TRUE,  excludedReason |-> "MY_REASON"]

\* The robots directive set of a scan (RobotDirectives, reduced to the three
\* questions maybeExcludeLink asks of it). present = FALSE is `null`.
RobotsNull  == [present |-> FALSE, blanket |-> FALSE, noimageindex |-> FALSE]
RobotsEmpty == [present |-> TRUE,  blanket |-> FALSE, noimageindex |-> FALSE]

isRobotAttr(tagName, attrName) ==
  \/ tagName = "img"      /\ attrName = "src"
  \/ tagName = "input"    /\ attrName = "src"
  \/ tagName = "menuitem" /\ attrName = "icon"
  \/ tagName = "video"    /\ attrName = "poster"

\* matchUrl(link.url.rebased.href, opts.excludedKeywords)
matchUrl(linkKeywords, excludedKeywords) == linkKeywords \cap excludedKeywords # {}

maybeExcludeLink_externalFirst(opts, rob, link) ==
  IF opts.excludeExternalLinks /\ link.internal = "false" THEN "BLC_EXTERNAL"
  ELSE IF <<link.tagName, link.attrName>> \notin TagTable THEN "BLC_HTML"
  ELSE IF opts.excludeInternalLinks /\ link.internal = "true" THEN "BLC_INTERNAL"
  ELSE IF opts.excludeLinksToSamePage /\ link.samePage = "true" THEN "BLC_SAMEPAGE"
  ELSE IF link.protocol \in opts.excludedSchemes THEN "BLC_SCHEME"
  ELSE IF opts.honorRobotExclusions /\ rob.blanket THEN "BLC_ROBOTS"
  ELSE IF opts.honorRobotExclusions /\ rob.noimageindex
          /\ isRobotAttr(link.tagName, link.attrName) THEN "BLC_ROBOTS"
  ELSE IF opts.honorRobotExclusions /\ link.relNofollow THEN "BLC_ROBOTS"
  ELSE IF matchUrl(link.keywords, opts.excludedKeywords) THEN "BLC_KEYWORD"
  ELSE IF link.custom.isObject
       THEN (IF link.custom.excluded THEN link.custom.excludedReason ELSE NotExcluded)
       ELSE (IF link.custom.truthy THEN NotExcluded ELSE "BLC_CUSTOM")

maybeExcludeLink(opts, rob, link) ==
  IF <<link.tagName, link.attrName>> \notin TagTable THEN "BLC_HTML"
  ELSE IF opts.excludeExternalLinks /\ link.internal = "false" THEN "BLC_EXTERNAL"
  ELSE IF opts.excludeInternalLinks /\ link.internal = "true" THEN "BLC_INTERNAL"
  ELSE IF opts.excludeLinksToSamePage /\ link.samePage = "true" THEN "BLC_SAMEPAGE"
  ELSE IF link.protocol \in opts.excludedSchemes THEN "BLC_SCHEME"
  ELSE IF opts.honorRobotExclusions /\ rob.blanket THEN "BLC_ROBOTS"
  ELSE IF opts.honorRobotExclusions /\ rob.noimageindex
          /\ isRobotAttr(link.tagName, link.attrName) THEN "BLC_ROBOTS"
  ELSE IF opts.honorRobotExclusions /\ link.relNofollow THEN "BLC_ROBOTS"
  ELSE IF matchUrl(link.keywords, opts.excludedKeywords) THEN "BLC_KEYWORD"
  ELSE IF link.custom.isObject
       THEN (IF link.custom.excluded THEN link.custom.excludedReason ELSE NotExcluded)
       ELSE (IF link.custom.truthy THEN NotExcluded ELSE "BLC_CUSTOM")

\* ------------------------------------------------------- the check queue
\* An item of linkQueue: the data UrlChecker.enqueue() attached (auth,
\* customData, link: the scan it belongs to and its source index + 1, 0 for a
\* URL enqueued directly), its state, and what checkUrl found in the cache
\* when the item was started.
NoData == "null"

newItem(id, url, customData, itemAuth, scan, idx) ==
  [id |-> id, url |-> url, host |-> HostOf(url), customData |-> customData,
   auth |-> itemAuth, scan |-> scan, idx |-> idx, state |-> "queued",
   notified |-> FALSE, cached |-> FALSE, outcome |-> NoOutcome,
   startAt |-> 0, prevAt |-> 0, prevOutcome |-> NoOutcome, prevSet |-> FALSE,
   prevDropped |-> FALSE]

numActive(its) == Cardinality({i \in DOMAIN its : its[i].state = "active"})
numQueued(its) == Cardinality({i \in DOMAIN its : its[i].state = "queued"})
hostActive(its, h) ==
  Cardinality({i \in DOMAIN its : its[i].state = "active" /\ its[i].host = h})

\* new URLCache({expiryTime: options.cacheExpiryTime, normalize: false})
CacheExpiryTime_zero(opts) == 0
CacheExpiryTime(opts) == opts.cacheExpiryTime

\* new RequestQueue({maxSockets, maxSocketsPerHost, rateLimit})
QueueMaxSockets_perHostUnlimited(opts) ==
  [maxSockets |-> opts.maxSockets, maxSocketsPerHost |-> opts.maxSockets + 1]
QueueMaxSockets(opts) ==
  [maxSockets |-> opts.maxSockets, maxSocketsPerHost |-> opts.maxSocketsPerHost]

EmptyCache == [u \in Urls |-> [set |-> FALSE, outcome |-> NoOutcome, expires |-> 0]]
EmptyLast  ==
  [u \in Urls |-> [set |-> FALSE, outcome |-> NoOutcome, at |-> 0, dropped |-> FALSE]]

\* checkUrl, on start: a live cache entry answers the check.
cacheLive(cch, url, t) == cch[url].set /\ t < cch[url].expires

\* The "item" handler runs checkUrl(data.link, data.auth, this.cache, options).
startItem(it, cch, lst, t) ==
  [it EXCEPT !.state = "active",
             !.cached = cacheLive(cch, it.url, t),
             !.outcome = IF cacheLive(cch, it.url, t) THEN cch[it.url].outcome
                         ELSE NoOutcome,
             !.startAt = t,
             !.prevSet = lst[it.url].set,
             !.prevAt = lst[it.url].at,
             !.prevOutcome = lst[it.url].outcome,
             !.prevDropped = lst[it.url].dropped]

canStart(its, it, q) ==
  /\ it.state = "queued"
  /\ numActive(its) < q.maxSockets
  /\ hostActive(its, it.host) < q.maxSocketsPerHost

RECURSIVE startFrom(_, _, _, _, _, _)
startFrom(its, i, q, cch, lst, t) ==
  IF i > Len(its) THEN its
  ELSE Let(IF canStart(its, its[i], q)
           THEN [its EXCEPT ![i] = startItem(its[i], cch, lst, t)]
           ELSE its,
           LAMBDA x : startFrom(x, i + 1, q, cch, lst, t))

\* The queue starts, in enqueue order, every waiting item the caps allow.
startNext(its, isPaused, opts, cch, lst, t) ==
  IF isPaused THEN its
  ELSE startFrom(its, 1, QueueMaxSockets(opts), cch, lst, t)

\* linkQueue.enqueue(link.url.rebased, {auth, customData, link}): undefined
\* (id 0) for a URL that cannot be scheduled, else the new item's id.
enqueue(its, nid, env, url, customData, itemAuth, idx) ==
  IF url = InvalidUrl THEN [items |-> its, id |-> 0, nextId |-> nid]
  ELSE [items |-> startNext(Append(its, newItem(nid, url, customData, itemAuth,
                                                env.scan, idx)),
                            env.paused, env.opts, env.cache, env.last, env.now),
        id |-> nid, nextId |-> nid + 1]

\* After done(): no item is active and none waits, so the queue fires "end".
queueDrained(its) == numActive(its) = 0 /\ numQueued(its) = 0

\* The item with this id leaves the queue (done(), or dequeue()).
removeItem(its, id) == SelectSeq(its, LAMBDA it : it.id # id)
hasItem(its, id) == \E k \in DOMAIN its : its[k].id = id
itemOf(its, id) == its[CHOOSE k \in DOMAIN its : its[k].id = id]

\* ------------------------------------------------------------ HtmlChecker
\* A notification: its name and the Link or queue item it is about; a
\* UrlChecker "link" also carries the result's cached flag and outcome and
\* the item's customData.
Ev(name, id) ==
  [ev |-> name, id |-> id, customData |-> NoData, cached |-> FALSE,
   outcome |-> NoOutcome]

\* this.emit("link", result, data.customData)
linkResult(it, o) ==
  [Ev("link", it.id) EXCEPT !.customData = it.customData, !.cached = it.cached,
                            !.outcome = o]

\* The candidate Links a scanned document can hold (scrapeHtml's output before
\* the index is stamped): an internal link, an external link
\* and a link whose URL cannot be parsed.
LinkA   == [tagName |-> "a", attrName |-> "href", internal |-> "true",
            samePage |-> "false", protocol |-> "http:", relNofollow |-> FALSE,
            keywords |-> {}, custom |-> FilterTrue, url |-> "u1"]
LinkExt == [LinkA EXCEPT !.internal = "false", !.url = "u2"]
LinkInv == [LinkA EXCEPT !.internal = "null", !.samePage = "null", !.url = InvalidUrl]
\* <a href="mailto:..."> on a page that carries the robots meta.
LinkMail == [LinkA EXCEPT !.internal = "false", !.protocol = "mailto:"]
\* An unparsable URL in an attribute the filter level does not cover.
LinkInvCite == [LinkInv EXCEPT !.tagName = "blockquote", !.attrName = "cite"]
Templates == {LinkA, LinkExt, LinkInv}

SeqsUpTo(S, n) == UNION {[1..k -> S] : k \in 0..n}
\* The documents scanned: every sequence of up to MaxLinks candidate Links,
\* the pages of MaxLinks Links that carry <meta name="robots" content="noindex">,
\* and a page of unparsable URLs, the first in an unsupported attribute.
Docs == {[links |-> l, meta |-> "none"] : l \in SeqsUpTo(Templates, MaxLinks)}
        \cup {[links |-> l, meta |-> "noindex"] :
                 l \in [1..MaxLinks -> {LinkA, LinkInv, LinkMail}]}
        \cup {[links |-> [i \in 1..MaxLinks |-> IF i = 1 THEN LinkInvCite ELSE LinkInv],
               meta |-> "none"]}
NoDoc == [links |-> <<>>, meta |-> "none"]

\* scan() arguments: the page URL, with or without userinfo.
Pages == {[url |-> "http://blc/", cred |-> NoAuth],
          [url |-> "http://blc/", cred |-> "user:pass"]}

\* transitiveAuth(baseUrl, auth): credentials of the page URL win over the
\* auth argument, and the URL is kept without them.
transitiveAuth(page, authArg) ==
  [auth |-> IF page.cred # NoAuth THEN page.cred ELSE authArg, url |-> page.url]

\* scrapeHtml(document, this.baseUrl, this.robots): link.html.index = links.length
scrapeIndex(i) == i - 1

\* findPreliminaries feeds the document's <meta name=robots> into this.robots.
robotsAfterScrape_ignored(rob, d) == rob
robotsAfterScrape(rob, d) ==
  IF d.meta = "noindex" THEN [rob EXCEPT !.blanket = TRUE] ELSE rob

reset_keepsCounter(h) ==
  [active |-> FALSE, auth |-> NoAuth, baseUrl |-> Undefined,
   excludedLinks |-> h.excludedLinks, parsed |-> FALSE, robots |-> RobotsNull]
reset_keepsActive(h) ==
  [active |-> h.active, auth |-> NoAuth, baseUrl |-> Undefined,
   excludedLinks |-> 0, parsed |-> FALSE, robots |-> RobotsNull]
reset(h) ==
  [active |-> FALSE, auth |-> NoAuth, baseUrl |-> Undefined,
   excludedLinks |-> 0, parsed |-> FALSE, robots |-> RobotsNull]

\* complete(instance): reset, then emit "complete".
complete_emitsFirst(st) ==
  [st EXCEPT !.h = reset(st.h),
             !.emitted = <<Ev("complete", 0)>> \o st.emitted,
             !.completes = st.completes + 1]
complete(st) ==
  [st EXCEPT !.h = reset(st.h),
             !.emitted = Append(st.emitted, Ev("complete", 0)),
             !.completes = st.completes + 1]

\* link.html.offsetIndex of an excluded and of a non-excluded Link
offsetIndexExcluded(index, nExcluded) == nExcluded
offsetIndexIncluded_index(index, nExcluded) == index
offsetIndexIncluded(index, nExcluded) == index - nExcluded

\* The record of one Link of the scan: how the filter pass stamped it and the
\* notifications it has received.
stamped(excluded, reason, offsetIndex, id) ==
  [excluded |-> excluded, excludedReason |-> reason, offsetIndex |-> offsetIndex,
   itemId |-> id, junkN |-> 0, linkN |-> 0, broken |-> "null",
   brokenReason |-> "null", cached |-> FALSE, outcome |-> NoOutcome]

\* `if (excludedReason !== false)`
isExcluded_never(reason) == FALSE
isExcluded(reason) == reason # NotExcluded

\* `if (id === undefined)`
enqueueRejected_never(id) == FALSE
enqueueRejected(id) == id = 0

\* st: [h, items, nextId, scanLinks, emitted, completes, ends]; env: [opts, paused, cache, last, now, scan]
maybeEnqueueLink(st, env, link, i) ==
  LET excludedReason == maybeExcludeLink(env.opts, st.h.robots, link)
      index == scrapeIndex(i)
  IN IF isExcluded(excludedReason)
     THEN [st EXCEPT
             !.h.excludedLinks = st.h.excludedLinks + 1,
             !.scanLinks = Append(st.scanLinks,
                 [stamped(TRUE, excludedReason,
                          offsetIndexExcluded(index, st.h.excludedLinks), 0)
                    EXCEPT !.junkN = 1]),
             !.emitted = Append(st.emitted, Ev("junk", i))]
     ELSE Let(enqueue(st.items, st.nextId, env, link.url, NoData, st.h.auth, i),
              LAMBDA r :
          LET rec == stamped(FALSE, "null",
                             offsetIndexIncluded(index, st.h.excludedLinks), r.id)
          IN IF enqueueRejected(r.id)
             THEN [st EXCEPT
                     !.scanLinks = Append(st.scanLinks,
                         [rec EXCEPT !.broken = "true", !.brokenReason = "BLC_INVALID",
                                     !.linkN = 1]),
                     !.emitted = Append(st.emitted, Ev("link", i))]
             ELSE [st EXCEPT !.items = r.items, !.nextId = r.nextId,
                             !.scanLinks = Append(st.scanLinks, rec)])

\* links.forEach(link => maybeEnqueueLink(this, link))
RECURSIVE forEachLink(_, _, _, _)
forEachLink(st, env, links, i) ==
  IF i > Len(links) THEN st
  ELSE Let(maybeEnqueueLink(st, env, links[i], i),
           LAMBDA x : forEachLink(x, env, links, i + 1))

\* --------------------------------------------------------------- actions
H == [active |-> active, auth |-> auth, baseUrl |-> baseUrl,
      excludedLinks |-> excludedLinks, parsed |-> parsed, robots |-> robots]

SetH(h) ==
  /\ active' = h.active
  /\ auth' = h.auth
  /\ baseUrl' = h.baseUrl
  /\ excludedLinks' = h.excludedLinks
  /\ parsed' = h.parsed
  /\ robots' = h.robots

Bundle(its, sl) ==
  [h |-> H, items |-> its, nextId |-> nextId, scanLinks |-> sl, emitted |-> <<>>,
   completes |-> completes, ends |-> ends]

Env == [opts |-> options, paused |-> paused, cache |-> cache, last |-> lastCheck,
        now |-> now, scan |-> accepted]

\* constructor: reset(this); new UrlChecker(options): empty cache and queue.
Constructed ==
  /\ active = FALSE /\ auth = NoAuth /\ baseUrl = Undefined
  /\ robots = RobotsNull /\ excludedLinks = 0 /\ parsed = FALSE
  /\ pendingParse = FALSE /\ doc = NoDoc /\ scanLinks = <<>>
  /\ items = <<>> /\ nextId = 1 /\ paused = FALSE /\ cache = EmptyCache
  /\ now = 0
  /\ ret = [op |-> "new", ok |-> TRUE, id |-> 0]
  /\ emitted = <<>>
  /\ accepted = 0 /\ completes = 0 /\ ends = 0
  /\ lastCheck = EmptyLast

Init ==
  /\ options \in OptionSets
  /\ Constructed
  /\ call = NoCall /\ result = NoCall

\* scan(): `if (this.active) return false`
scanRejects_never(h) == FALSE
scanRejects(h) == h.active

\* HtmlChecker.scan(html, baseUrl, robots, auth), up to `return true`; the
\* parseHtml() promise is left pending. The early return reads no argument.
ScanRejected ==
  /\ scanRejects(H)
  /\ ret' = [op |-> "scan", ok |-> FALSE, id |-> 0]
  /\ emitted' = <<>>
  /\ UNCHANGED <<pvars, options, hvars, pendingParse, doc, scanLinks, qvars, now,
                 accepted, completes, ends, lastCheck>>

ScanAccepted(d, page) ==
       /\ ~scanRejects(H)
       /\ accepted < MaxScans
       /\ LET transitive == transitiveAuth(page, NoAuth)
          IN /\ active' = TRUE
             /\ auth' = transitive.auth
             /\ baseUrl' = transitive.url
             /\ robots' = RobotsEmpty
       /\ pendingParse' = TRUE
       /\ doc' = d
       /\ scanLinks' = <<>>
       /\ accepted' = accepted + 1
       /\ ret' = [op |-> "scan", ok |-> TRUE, id |-> 0]
       /\ emitted' = <<>>
       /\ UNCHANGED <<pvars, options, excludedLinks, parsed, qvars, now, completes,
                      ends, lastCheck>>

\* `this.urlChecker.numActiveLinks===0 && this.urlChecker.numQueuedLinks===0`
nothingToCheck_never(its) == FALSE
nothingToCheck_activeOnly(its) == numActive(its) = 0
nothingToCheck(its) == numActive(its) = 0 /\ numQueued(its) = 0

thenCallback(st, env, d) ==
  LET st0 == [st EXCEPT !.h.robots = robotsAfterScrape(st.h.robots, d),
                        !.emitted = <<Ev("html", 0)>>]
  IN Let(forEachLink(st0, env, d.links, 1),
         LAMBDA st1 :
           IF nothingToCheck(st1.items)
           THEN complete([st1 EXCEPT !.h.parsed = TRUE])
           ELSE [st1 EXCEPT !.h.parsed = TRUE])

\* The then-callbacks of parseHtml(html): scrape, emit "html", run the filter
\* pass over every Link, set parsed, and complete if nothing is left to check.
ParseDone ==
  /\ pendingParse
  /\ \E st3 \in {thenCallback(Bundle(items, <<>>), Env, doc)} :
        /\ SetH(st3.h)
        /\ items' = st3.items
        /\ nextId' = st3.nextId
        /\ scanLinks' = st3.scanLinks
        /\ emitted' = st3.emitted
        /\ completes' = st3.completes
  /\ pendingParse' = FALSE
  /\ ret' = [op |-> "then", ok |-> TRUE, id |-> 0]
  /\ UNCHANGED <<pvars, options, doc, paused, cache, now, accepted, ends, lastCheck>>

\* UrlChecker's .on("end", () => this.emit("end")), then HtmlChecker's "end"
\* listener: `if (this.parsed) complete(this)`.
onQueueEnd(st) ==
  LET st1 == [st EXCEPT !.emitted = Append(st.emitted, Ev("end", 0)),
                        !.ends = st.ends + 1]
  IN IF st1.h.parsed THEN complete(st1) ELSE st1

\* The "item" handler's then-callback: emit "link", then done().
itemHandlerEmits_doneFirst(linkEv, doneEvs) == doneEvs \o <<linkEv>>
itemHandlerEmits(linkEv, doneEvs) == <<linkEv>> \o doneEvs

callsDone_onSuccessOnly(outcome) == outcome = "ok"
callsDone(outcome) == TRUE

\* HtmlChecker's .on("link", result => this.emit("link", result)): the Link of
\* the running scan gets its outcome.
noteLink(sl, it, outcome) ==
  IF it.idx > 0 /\ it.scan = accepted /\ it.idx <= Len(sl)
  THEN [sl EXCEPT ![it.idx].linkN = sl[it.idx].linkN + 1,
                  ![it.idx].broken = IF outcome = "ok" THEN "false" ELSE "true",
                  ![it.idx].cached = it.cached,
                  ![it.idx].outcome = outcome]
  ELSE sl

\* The "item" handler of the queue, from the moment checkUrl() resolves:
\* a fresh outcome is cached, "link" is emitted, and done() lets the queue
\* start what it can or fire "end".
itemHandler(st, env, id, o) ==
  LET it == itemOf(st.items, id)
      k == CHOOSE k \in DOMAIN st.items : st.items[k].id = id
      cache1 == IF it.cached THEN env.cache
                ELSE [env.cache EXCEPT ![it.url] =
                        [set |-> TRUE, outcome |-> o,
                         expires |-> env.now + CacheExpiryTime(env.opts)]]
      last1 == IF it.cached THEN env.last
               ELSE [env.last EXCEPT ![it.url] =
                       [set |-> TRUE, outcome |-> o, at |-> env.now,
                        dropped |-> FALSE]]
      items1 == [st.items EXCEPT ![k].notified = TRUE, ![k].outcome = o]
      linked == [st EXCEPT !.scanLinks = noteLink(st.scanLinks, it, o)]
  IN Let(IF callsDone(o)
         THEN startNext(removeItem(items1, id),
                        env.paused, env.opts, cache1, last1, env.now)
         ELSE items1,
         LAMBDA items2 :
     Let(IF callsDone(o) /\ queueDrained(items2)
         THEN onQueueEnd([linked EXCEPT !.items = items2])
         ELSE [linked EXCEPT !.items = items2],
         LAMBDA st1 :
           [h |-> st1.h, items |-> st1.items, scanLinks |-> st1.scanLinks,
            emitted |-> itemHandlerEmits(linkResult(it, o), st1.emitted),
            completes |-> st1.completes, ends |-> st1.ends,
            cache |-> cache1, last |-> last1]))

\* checkUrl(...) resolves for active item id; o is what the network check
\* found when the cache did not answer.
CheckDone(id, o) ==
  /\ hasItem(items, id)
  /\ itemOf(items, id).state = "active"
  /\ ~itemOf(items, id).notified
  /\ itemOf(items, id).cached => o = itemOf(items, id).outcome
  /\ \E st1 \in {itemHandler(Bundle(items, scanLinks), Env, id, o)} :
        /\ SetH(st1.h)
        /\ items' = st1.items
        /\ scanLinks' = st1.scanLinks
        /\ emitted' = st1.emitted
        /\ completes' = st1.completes
        /\ ends' = st1.ends
        /\ cache' = st1.cache
        /\ lastCheck' = st1.last
  /\ ret' = [op |-> "then", ok |-> TRUE, id |-> id]
  /\ UNCHANGED <<pvars, options, pendingParse, doc, nextId, paused, now, accepted>>

\* pause(): linkQueue.pause()
Pause ==
  /\ ~paused
  /\ paused' = TRUE
  /\ ret' = ret
  /\ emitted' = <<>>
  /\ UNCHANGED <<pvars, options, hvars, pendingParse, doc, scanLinks, items, nextId,
                 cache, now, accepted, completes, ends, lastCheck>>

\* this.linkQueue.resume(): the queue starts what the caps allow.
resumeQueue_startsNothing(its, opts, cch, lst, t) == its
resumeQueue(its, opts, cch, lst, t) == startNext(its, FALSE, opts, cch, lst, t)

\* resume(): linkQueue.resume()
Resume ==
  /\ paused
  /\ paused' = FALSE
  /\ items' = resumeQueue(items, options, cache, lastCheck, now)
  /\ ret' = ret
  /\ emitted' = <<>>
  /\ UNCHANGED <<pvars, options, hvars, pendingParse, doc, scanLinks, nextId, cache, now,
                 accepted, completes, ends, lastCheck>>

\* this.cache.clear()
clear_keepsEntries(cch) == cch
clear(cch) == EmptyCache

\* clearCache(): this.cache.clear(); return this. The history of fetches
\* notes, per URL, that a stored outcome was dropped.
ClearCache ==
  /\ cache # EmptyCache
  /\ cache' = clear(cache)
  /\ lastCheck' = [u \in Urls |->
                     [EmptyLast[u] EXCEPT
                        !.dropped = cache[u].set \/ lastCheck[u].dropped]]
  /\ ret' = [op |-> "clearCache", ok |-> TRUE, id |-> 0]
  /\ emitted' = <<>>
  /\ UNCHANGED <<pvars, options, hvars, pendingParse, doc, scanLinks, items, nextId,
                 paused, now, accepted, completes, ends>>

\* Time passes.
Tick ==
  /\ now < MaxTime
  /\ now' = now + 1
  /\ UNCHANGED <<pvars, options, hvars, pendingParse, doc, scanLinks, qvars, ret,
                 emitted, accepted, completes, ends, lastCheck>>

\* UrlChecker.enqueue(url, customData) called directly.
UEnqueue(url, customData) ==
  /\ nextId <= MaxItems
  /\ LET r == enqueue(items, nextId, Env, url, customData, NoAuth, 0)
     IN /\ items' = r.items
        /\ nextId' = r.nextId
        /\ ret' = [op |-> "enqueue", ok |-> r.id # 0, id |-> r.id]
  /\ emitted' = <<>>
  /\ UNCHANGED <<pvars, options, hvars, pendingParse, doc, scanLinks, paused, cache, now,
                 accepted, completes, ends, lastCheck>>

\* return this.linkQueue.dequeue(id)
dequeue_keepsItem(its, id) == [items |-> its, ok |-> hasItem(its, id)]
dequeue(its, id) ==
  IF hasItem(its, id) THEN [items |-> removeItem(its, id), ok |-> TRUE]
  ELSE [items |-> its, ok |-> FALSE]

\* UrlChecker.dequeue(id): a waiting item is removed; an id the queue does not
\* hold is refused. (Dequeuing a started item is left unspecified and is not
\* exercised.)
Dequeue(id) ==
  /\ id <= nextId
  /\ hasItem(items, id) => itemOf(items, id).state = "queued"
  /\ LET r == dequeue(items, id)
     IN /\ items' = r.items
        /\ ret' = [op |-> "dequeue", ok |-> r.ok, id |-> id]
  /\ emitted' = <<>>
  /\ UNCHANGED <<pvars, options, hvars, pendingParse, doc, scanLinks, nextId, paused,
                 cache, now, accepted, completes, ends, lastCheck>>

ItemIds == 1..(MaxScans * MaxLinks + MaxItems)

\* What the network answers while pages are scanned: u1 is reachable, u2 is not.
NetOutcome(url) == IF url = "u1" THEN "ok" ELSE "broken"

NetCheckDone(id) ==
  /\ hasItem(items, id)
  /\ CheckDone(id, NetOutcome(itemOf(items, id).url))

\* One HtmlChecker and the UrlChecker it owns.
Next ==
  \/ ScanRejected
  \/ \E d \in Docs, page \in Pages : ScanAccepted(d, page)
  \/ ParseDone
  \/ \E id \in ItemIds : NetCheckDone(id)
  \/ Pause
  \/ Resume
  \/ ClearCache

Spec == Init /\ [][Next]_vars

\* The promise chain parseHtml(html).then(...).then(...) rejects: parseHtml
\* rejects or a callback throws. The chain has no rejection handler, so no
\* callback of scan() runs and no field is written.
ParseFailed ==
  /\ pendingParse
  /\ pendingParse' = FALSE
  /\ ret' = [op |-> "rejected", ok |-> FALSE, id |-> 0]
  /\ emitted' = <<>>
  /\ UNCHANGED <<pvars, options, hvars, doc, scanLinks, qvars, now, accepted,
                 completes, ends, lastCheck>>

FailNext ==
  \/ Next
  \/ ParseFailed

\* HtmlChecker with documents whose parse may fail.
FailSpec == Init /\ [][FailNext]_vars

\* ----------------------------------------------- the filter chain, alone
\* maybeExcludeLink applied to one Link under one option setting and one
\* robots directive set.
FilterOptions ==
  { [BaseOptions EXCEPT !.excludeExternalLinks = ee, !.excludeInternalLinks = ei,
                        !.excludeLinksToSamePage = es, !.honorRobotExclusions = hr,
                        !.excludedKeywords = {"bad"}] :
      ee \in BOOLEAN, ei \in BOOLEAN, es \in BOOLEAN, hr \in BOOLEAN }
FilterRobots ==
  { [present |-> TRUE, blanket |-> b, noimageindex |-> n] : b \in BOOLEAN, n \in BOOLEAN }
FilterLinks ==
  { [tagName |-> ta[1], attrName |-> ta[2], internal |-> int, samePage |-> sp,
     protocol |-> pr, relNofollow |-> rel, keywords |-> kw, custom |-> cf,
     url |-> "u1"] :
      ta \in {<<"a", "href">>, <<"img", "src">>, <<"blockquote", "cite">>},
      int \in TriState, sp \in {"true", "false"}, pr \in {"http:", "mailto:"},
      rel \in BOOLEAN, kw \in {{}, {"bad"}},
      cf \in {FilterTrue, FilterFalse, FilterObjIn, FilterObjEx} }

FilterInit ==
  /\ options = BaseOptions
  /\ Constructed
  /\ call \in [fn : {"maybeExcludeLink"}, opts : FilterOptions,
                rob : FilterRobots, link : FilterLinks]
  /\ result = NoCall

FilterApply ==
  /\ call.fn = "maybeExcludeLink"
  /\ result = NoCall
  /\ result' = [fn |-> call.fn,
                value |-> maybeExcludeLink(call.opts, call.rob, call.link)]
  /\ UNCHANGED <<options, hvars, pendingParse, doc, scanLinks, qvars, now, ret,
                 emitted, accepted, completes, ends, lastCheck, call>>

FilterSpec == FilterInit /\ [][FilterApply]_vars

\* ------------------------------------------------------------ scrapeHtml
\* Attribute values are strings, modelled as sequences of tokens: " " is
\* whitespace, "," and ";" are separators, anything else is text.
trimLeft(s) == SubSeq(s, (CHOOSE i \in 1..(Len(s) + 1) :
                            /\ \A j \in 1..(i - 1) : s[j] = " "
                            /\ i <= Len(s) => s[i] # " "), Len(s))
trimRight(s) == SubSeq(s, 1, (CHOOSE i \in 0..Len(s) :
                                /\ \A j \in (i + 1)..Len(s) : s[j] = " "
                                /\ i >= 1 => s[i] # " "))
trim(s) == trimRight(trimLeft(s))

lower(c) == CASE c = "REFRESH" -> "refresh" [] c = "ROBOTS" -> "robots" [] OTHER -> c
toLowerCase(s) == [i \in DOMAIN s |-> lower(s[i])]

RECURSIVE split(_, _)
split(s, sep) ==
  IF \A i \in DOMAIN s : s[i] # sep THEN <<s>>
  ELSE LET i == CHOOSE i \in DOMAIN s :
                  s[i] = sep /\ \A j \in 1..(i - 1) : s[j] # sep
       IN <<SubSeq(s, 1, i - 1)>> \o split(SubSeq(s, i + 1, Len(s)), sep)

trimEach(parts) == [i \in DOMAIN parts |-> trim(parts[i])]
nonEmpty(parts) == SelectSeq(parts, LAMBDA p : p # <<>>)

\* list2Array(value, ","): the comma-separated values
list2Array(s, sep) == nonEmpty(trimEach(split(s, sep)))

\* parseSrcset(value).map(image => image.url): of each comma-separated
\* candidate, the URL that precedes its descriptor.
parseSrcset(s) ==
  LET cands == nonEmpty(trimEach(split(s, ",")))
  IN [i \in DOMAIN cands |-> Head(split(cands[i], " "))]

\* parseMetaRefresh(content).url: the URL after "<seconds>;", if any
parseMetaRefresh(s) ==
  LET parts == split(s, ";")
  IN IF Len(parts) < 2 \/ trim(parts[2]) = <<>> THEN <<>> ELSE <<trim(parts[2])>>

\* tags[tags.length - 1]: element name -> the attributes that may carry a URL
maxFilterLevel ==
  [a |-> {"href", "ping"}, img |-> {"src", "srcset"}, meta |-> {"content"},
   blockquote |-> {"cite"}]

\* RobotDirectives.isBot(name)
isBot(name) == name = <<"googlebot">>

attrNames(node) == {node.attrs[i].name : i \in DOMAIN node.attrs}
attrOf(node, name) == node.attrs[CHOOSE i \in DOMAIN node.attrs : node.attrs[i].name = name]
attrMap(node, name) == attrOf(node, name).value

RECURSIVE Flatten(_)
Flatten(ss) == IF ss = <<>> THEN <<>> ELSE Head(ss) \o Flatten(Tail(ss))

\* walk(node, callback), for a callback that lets it run: the nodes in the
\* order the callback sees them.
RECURSIVE walk(_)
walk(node) ==
  <<node>> \o (IF "childNodes" \in DOMAIN node
               THEN Flatten([i \in DOMAIN node.childNodes |-> walk(node.childNodes[i])])
               ELSE <<>>)

\* findLinks, the switch on attrName: the URLs extracted from one attribute
\* (an Array, one string, or nothing for null).
extractUrls(node, attrName) ==
  CASE attrName = "content" ->
         IF "http-equiv" \in attrNames(node)
            /\ toLowerCase(attrMap(node, "http-equiv")) = <<"refresh">>
         THEN parseMetaRefresh(attrMap(node, attrName))
         ELSE <<>>
    [] attrName = "ping" -> list2Array(attrMap(node, attrName), ",")
    [] attrName = "srcset" -> parseSrcset(attrMap(node, attrName))
    [] OTHER -> <<trim(attrMap(node, attrName))>>

\* findLinks, per walked node: the callback invocations it makes.
nodeCallbacks(node) ==
  IF node.nodeName \notin DOMAIN maxFilterLevel THEN <<>>
  ELSE Flatten([i \in DOMAIN node.attrs |->
         LET attrName == node.attrs[i].name
         IN IF attrName \in maxFilterLevel[node.nodeName]
            THEN LET url == extractUrls(node, attrName)
                 IN [k \in DOMAIN url |->
                       [node |-> node, attrName |-> attrName, url |-> url[k]]]
            ELSE <<>>])

findLinks(rootNode) ==
  LET nodes == walk(rootNode)
  IN Flatten([n \in DOMAIN nodes |-> nodeCallbacks(nodes[n])])

NoBase == [isNull |-> TRUE, href |-> <<>>]

\* `result.base==null`
baseUnset_always(base) == TRUE
baseUnset(base) == base.isNull

\* findPreliminaries: the walk callback on one node, and the walk it may kill.
prelimCallback(st, node, robotsRequested) ==
  LET st1 ==
        CASE node.nodeName = "base" ->
               IF baseUnset(st.base) /\ "href" \in attrNames(node)
               THEN [st EXCEPT !.base = [isNull |-> FALSE,
                                         href |-> trim(attrMap(node, "href"))]]
               ELSE st
          [] node.nodeName = "meta" ->
               IF robotsRequested /\ "name" \in attrNames(node)
                  /\ "content" \in attrNames(node)
               THEN LET name == toLowerCase(trim(attrMap(node, "name")))
                    IN IF name = <<"robots">> \/ isBot(name)
                       THEN [st EXCEPT !.fed = Append(st.fed,
                                  [name |-> name, content |-> attrMap(node, "content")])]
                       ELSE st
               ELSE st
          [] OTHER -> st
  IN [st1 EXCEPT !.killed = ~st1.base.isNull /\ ~robotsRequested]

RECURSIVE prelimWalk(_, _, _, _)
prelimWalk(nodes, i, st, robotsRequested) ==
  IF i > Len(nodes) \/ st.killed THEN st
  ELSE prelimWalk(nodes, i + 1, prelimCallback(st, nodes[i], robotsRequested),
                  robotsRequested)

findPreliminaries(rootNode, robotsRequested) ==
  prelimWalk(walk(rootNode), 1, [base |-> NoBase, fed |-> <<>>, killed |-> FALSE],
             robotsRequested)

findRootNode(document) ==
  document.childNodes[CHOOSE i \in DOMAIN document.childNodes :
     /\ "childNodes" \in DOMAIN document.childNodes[i]
     /\ \A j \in 1..(i - 1) : "childNodes" \notin DOMAIN document.childNodes[j]]

\* scrapeHtml's callback: `link.html.index = links.length`
linkIndex_fromOne(links) == Len(links) + 1
linkIndex(links) == Len(links)

linkCallback(links, base, cb) ==
  Append(links, [attrName |-> cb.attrName, tagName |-> cb.node.nodeName,
                 base |-> base, index |-> linkIndex(links),
                 location |-> attrOf(cb.node, cb.attrName).location,
                 url |-> cb.url])

RECURSIVE pushLinks(_, _, _, _)
pushLinks(cbs, i, links, base) ==
  IF i > Len(cbs) THEN links
  ELSE pushLinks(cbs, i + 1, linkCallback(links, base, cbs[i]), base)

scrapeHtml(document, robotsRequested) ==
  LET rootNode == findRootNode(document)
      pre == findPreliminaries(rootNode, robotsRequested)
  IN [links |-> pushLinks(findLinks(rootNode), 1, <<>>, pre.base),
      robotsFed |-> pre.fed]

\* The documents scraped: <html> with up to MaxNodes child elements, the first
\* of which may hold one nested element. location is the source offset parseHtml
\* records for an attribute; offsets grow in document order.
Attr(name, value) == [name |-> name, value |-> value]
ElementKinds ==
  { [nodeName |-> "a",    attrs |-> <<Attr("href", <<"u">>)>>],
    [nodeName |-> "a",    attrs |-> <<Attr("ping", <<"u", ",", " ", "v">>),
                                      Attr("href", <<" ", "w", " ">>)>>],
    [nodeName |-> "img",  attrs |-> <<Attr("src", <<"u">>),
                                      Attr("srcset", <<"u", " ", "2x", ",", "v">>)>>],
    [nodeName |-> "p",    attrs |-> <<Attr("class", <<"u">>)>>],
    [nodeName |-> "a",    attrs |-> <<Attr("href", <<" ">>)>>],
    [nodeName |-> "base", attrs |-> <<Attr("href", <<"b">>)>>],
    [nodeName |-> "base", attrs |-> <<Attr("href", <<" ">>)>>],
    [nodeName |-> "base", attrs |-> <<Attr("target", <<"t">>)>>],
    [nodeName |-> "meta", attrs |-> <<Attr("name", <<" ", "ROBOTS">>),
                                      Attr("content", <<"noindex">>)>>],
    [nodeName |-> "meta", attrs |-> <<Attr("http-equiv", <<"REFRESH">>),
                                      Attr("content", <<"5", ";", " ", "u">>)>>] }
NestedKinds ==
  { [nodeName |-> "a",    attrs |-> <<Attr("href", <<"n">>)>>],
    [nodeName |-> "base", attrs |-> <<Attr("href", <<"c">>)>>] }
NoElement == [nodeName |-> "#text"]

Element(kind, loc, kids) ==
  [nodeName |-> kind.nodeName,
   attrs |-> [i \in DOMAIN kind.attrs |->
                [name |-> kind.attrs[i].name, value |-> kind.attrs[i].value,
                 location |-> loc + i]],
   childNodes |-> kids]

Document(kinds, nested) ==
  [nodeName |-> "#document",
   childNodes |->
     << [nodeName |-> "#documentType"],
        [nodeName |-> "html", attrs |-> <<>>,
         childNodes |->
           [j \in DOMAIN kinds |->
              Element(kinds[j], 10 * j,
                      IF j > 1 \/ nested = NoElement THEN <<>>
                      ELSE <<Element(nested, 10 * j + 5, <<>>)>>)]] >>]

ScrapeDocs ==
  UNION { {Document(kinds, nested) :
             kinds \in [1..n -> ElementKinds],
             nested \in IF n = 0 THEN {NoElement}
                         ELSE NestedKinds \cup {NoElement}} : n \in 0..MaxNodes }

ScrapeInit ==
  /\ options = BaseOptions
  /\ Constructed
  /\ call \in [fn : {"scrapeHtml"}, document : ScrapeDocs, robots : BOOLEAN]
  /\ result = NoCall

ScrapeApply ==
  /\ call.fn = "scrapeHtml"
  /\ result = NoCall
  /\ result' = [fn |-> call.fn, value |-> scrapeHtml(call.document, call.robots)]
  /\ UNCHANGED <<options, hvars, pendingParse, doc, scanLinks, qvars, now, ret,
                 emitted, accepted, completes, ends, lastCheck, call>>

ScrapeSpec == ScrapeInit /\ [][ScrapeApply]_vars

\* A UrlChecker used on its own: the enqueue(url, customData) calls made.
DirectCalls == {<<"u1", "d1">>, <<"u1", "d2">>, <<"u2", "d1">>, <<InvalidUrl, "d1">>}

QueueNext ==
  \/ \E c \in DirectCalls : UEnqueue(c[1], c[2])
  \/ \E id \in ItemIds : Dequeue(id)
  \/ \E id \in ItemIds, o \in Outcomes : CheckDone(id, o)
  \/ Pause
  \/ Resume
  \/ ClearCache
  \/ Tick

QueueSpec == Init /\ [][QueueNext]_vars


\* ------------------------------------------------ listeners that call scan()
\* One listener, registered on one notification name, calls
\* scan(ListenerDoc, ListenerPage) each time it runs. emit() runs listeners
\* synchronously, so the call sees the instance as the handler has left it at
\* that emit.
ListenerDoc == [links |-> <<LinkA>>, meta |-> "none"]
ListenerPage == [url |-> "http://blc/", cred |-> NoAuth]
ListenerNames == {"html", "junk", "link", "complete"}

\* The documents scanned from outside: no Link, one Link of each kind, and an
\* excluded Link followed by unschedulable ones.
ListenerDocs ==
  {[links |-> l, meta |-> "none"] : l \in SeqsUpTo(Templates, 1)}
  \cup {[links |-> [i \in 1..MaxLinks |-> IF i = 1 THEN LinkExt ELSE LinkInv],
         meta |-> "none"]}

\* scan(), from `const transitive` to `this.robots = robots`
scanFields(h, page) ==
  [h EXCEPT !.active = TRUE,
            !.auth = transitiveAuth(page, NoAuth).auth,
            !.baseUrl = transitiveAuth(page, NoAuth).url,
            !.robots = RobotsEmpty]

\* complete(): reset(instance) precedes instance.emit("complete"), so a
\* "complete" listener sees the fields as reset() left them.
seenByComplete_beforeReset(before, after) == before
seenByComplete(before, after) == after

\* The instance fields at each notification of the then-callback: "html" is
\* emitted before the filter pass, the notification of Link i at the end of
\* maybeEnqueueLink for that Link, "complete" inside complete().
seenInThen(evs, d, after) ==
  LET st0 == [Bundle(items, <<>>) EXCEPT !.h.robots = robotsAfterScrape(H.robots, d)]
      atLink(i) == forEachLink(st0, Env, SubSeq(d.links, 1, i), 1).h
  IN [n \in DOMAIN evs |->
        CASE evs[n].ev = "html" -> st0.h
          [] evs[n].ev \in {"junk", "link"} -> atLink(evs[n].id)
          [] OTHER -> seenByComplete([atLink(Len(d.links)) EXCEPT !.parsed = TRUE], after)]

\* The instance fields at each notification of the item handler: "link" is
\* emitted before done(), "complete" inside complete().
seenInItem(evs, after) ==
  [n \in DOMAIN evs |->
     IF evs[n].ev = "complete" THEN seenByComplete(H, after) ELSE H]

\* What the listener's scan() calls return, one per notification of its name.
\* The listener stops calling once MaxScans scans were accepted.
listenerReturns(evs, seen) ==
  IF accepted >= MaxScans THEN <<>>
  ELSE LET heardAt == {n \in DOMAIN evs : evs[n].ev = call.on}
           RECURSIVE inOrder(_)
           inOrder(n) == IF n > Len(evs) THEN <<>>
                         ELSE (IF n \in heardAt THEN <<~scanRejects(seen[n])>> ELSE <<>>)
                              \o inOrder(n + 1)
       IN inOrder(1)

\* The listener's scan() was accepted from inside "complete", the last
\* statement of the handler.
rescanned(evs, returned) ==
  /\ call.on = "complete" /\ returned # <<>>
  /\ returned[Len(returned)]
  /\ evs[Len(evs)].ev = "complete"

ListenerInit ==
  /\ options \in OptionSets
  /\ Constructed
  /\ call \in [fn : {"listener"}, on : ListenerNames]
  /\ result = NoCall

\* The then-callbacks of parseHtml(html), with the listener run at each emit.
LParseDone ==
  /\ pendingParse
  /\ \E st3 \in {thenCallback(Bundle(items, <<>>), Env, doc)} :
       \E r \in {listenerReturns(st3.emitted, seenInThen(st3.emitted, doc, st3.h))} :
        /\ IF rescanned(st3.emitted, r)
           THEN /\ SetH(scanFields(st3.h, ListenerPage))
                /\ pendingParse' = TRUE
                /\ doc' = ListenerDoc
                /\ scanLinks' = <<>>
                /\ accepted' = accepted + 1
           ELSE /\ SetH(st3.h)
                /\ pendingParse' = FALSE
                /\ doc' = doc
                /\ scanLinks' = st3.scanLinks
                /\ accepted' = accepted
        /\ items' = st3.items
        /\ nextId' = st3.nextId
        /\ emitted' = st3.emitted
        /\ completes' = st3.completes
        /\ result' = [fn |-> "listener", value |-> r]
  /\ ret' = [op |-> "then", ok |-> TRUE, id |-> 0]
  /\ UNCHANGED <<options, paused, cache, now, ends, lastCheck, call>>

\* The item handler's then-callback, with the listener run at each emit.
LCheckDone(id) ==
  /\ hasItem(items, id)
  /\ itemOf(items, id).state = "active"
  /\ ~itemOf(items, id).notified
  /\ \E st1 \in {itemHandler(Bundle(items, scanLinks), Env, id,
                             IF itemOf(items, id).cached THEN itemOf(items, id).outcome
                             ELSE NetOutcome(itemOf(items, id).url))} :
       \E r \in {listenerReturns(st1.emitted, seenInItem(st1.emitted, st1.h))} :
        /\ IF rescanned(st1.emitted, r)
           THEN /\ SetH(scanFields(st1.h, ListenerPage))
                /\ pendingParse' = TRUE
                /\ doc' = ListenerDoc
                /\ scanLinks' = <<>>
                /\ accepted' = accepted + 1
           ELSE /\ SetH(st1.h)
                /\ pendingParse' = pendingParse
                /\ doc' = doc
                /\ scanLinks' = st1.scanLinks
                /\ accepted' = accepted
        /\ items' = st1.items
        /\ emitted' = st1.emitted
        /\ completes' = st1.completes
        /\ ends' = st1.ends
        /\ cache' = st1.cache
        /\ lastCheck' = st1.last
        /\ result' = [fn |-> "listener", value |-> r]
  /\ ret' = [op |-> "then", ok |-> TRUE, id |-> id]
  /\ UNCHANGED <<options, nextId, paused, now, call>>

ListenerNext ==
  \/ \E d \in ListenerDocs : ScanAccepted(d, ListenerPage)
  \/ LParseDone
  \/ \E id \in ItemIds : LCheckDone(id)

\* One HtmlChecker whose listener calls scan().
ListenerSpec == ListenerInit /\ [][ListenerNext]_vars

\* ================================================================ claims

\* A step in which scan() was called and returned.
ScanCalled == ret'.op = "scan" /\ <<ret, accepted>>' # <<ret, accepted>>

\* C1: scan() on an instance that is not Idle returns false and changes
\* nothing (no field, nothing enqueued, no notification); scan() on an Idle
\* instance returns true and leaves the instance non-Idle.
C1_SingleScanGuard ==
  [][ScanCalled =>
       IF active
       THEN /\ ret'.ok = FALSE
            /\ emitted' = <<>>
            /\ UNCHANGED <<hvars, pendingParse, doc, scanLinks, qvars,
                           accepted, completes, ends>>
       ELSE ret'.ok /\ active']_vars

\* A scan() was refused while the running scan had a check in the queue.
C1_Witness == ret.op = "scan" /\ ~ret.ok /\ active /\ Len(items) > 0

\* What drives a running scan to its "complete": the unsettled parseHtml()
\* promise, a check in flight, or a paused queue that holds waiting items.
WorkPending ==
  \/ pendingParse
  \/ numActive(items) > 0
  \/ paused /\ numQueued(items) > 0

\* C2: every accepted scan emits "complete" exactly once and is then Idle
\* again. Never twice: "complete" notifications never outnumber the accepted
\* scans, and the instance is active exactly from an accepted scan to its
\* "complete". Never zero times: a running scan always has a parse to
\* settle, a check to settle or a paused queue to resume, and is never left
\* with nothing that would complete it.
C2_CompleteExactlyOnce ==
  /\ completes <= accepted
  /\ active <=> accepted = completes + 1
  /\ ~active <=> accepted = completes
  /\ active => WorkPending
  /\ ~active => ~pendingParse /\ ~parsed

\* The second scan completed through the queue's "end" notification.
C2_Witness ==
  /\ completes = 2 /\ ~active
  /\ Len(emitted) >= 2 /\ emitted[Len(emitted)].ev = "complete"
  /\ emitted[Len(emitted) - 1].ev = "end"

\* Items of the running scan that are in the queue for Link i.
queuedFor(i) == {k \in DOMAIN items : items[k].scan = accepted /\ items[k].idx = i}

\* C3: within a scan every candidate Link gets exactly one notification:
\* "junk" if the filter chain excluded it, else one "link"; never both, and
\* once the scan has completed never neither; an excluded Link is never
\* submitted to the check queue.
C3_OneNotificationPerLink ==
  /\ \A i \in DOMAIN scanLinks :
       LET l == scanLinks[i]
       IN /\ l.junkN + l.linkN <= 1
          /\ l.excluded <=> l.junkN = 1
          /\ l.excluded =>
               l.linkN = 0 /\ l.itemId = 0 /\ queuedFor(i) = {}
          /\ (~l.excluded /\ l.linkN = 0) => queuedFor(i) # {}
  /\ (~active /\ accepted > 0) =>
       /\ Len(scanLinks) = Len(doc.links)
       /\ \A i \in DOMAIN scanLinks : scanLinks[i].junkN + scanLinks[i].linkN = 1

\* A completed scan of two Links, one excluded and one checked by the queue.
C3_Witness ==
  /\ ~active /\ Len(scanLinks) = 2
  /\ \E i, j \in DOMAIN scanLinks :
       /\ scanLinks[i].junkN = 1
       /\ scanLinks[j].linkN = 1 /\ scanLinks[j].itemId > 0

excludedBefore(i) == Cardinality({j \in 1..(i - 1) : scanLinks[j].excluded})
included == {i \in DOMAIN scanLinks : ~scanLinks[i].excluded}

\* C5: the offsetIndex of every non-excluded Link (checked or invalid) is its
\* source index minus the number of excluded Links before it, so the values
\* are 0..K-1 in document order.
C5_OffsetIndexDense ==
  /\ \A i \in included :
       scanLinks[i].offsetIndex = scrapeIndex(i) - excludedBefore(i)
  /\ {scanLinks[i].offsetIndex : i \in included} = 0..(Cardinality(included) - 1)
  /\ \A i, j \in included :
       i < j => scanLinks[i].offsetIndex < scanLinks[j].offsetIndex

\* An excluded Link precedes a non-excluded one.
C5_Witness ==
  /\ Len(scanLinks) >= 2
  /\ scanLinks[1].excluded /\ ~scanLinks[2].excluded


\* The rules of the filter chain, in the order the specification lists them,
\* and the reason each reports.
RuleMatches(k, opts, rob, link) ==
  CASE k = 1 -> <<link.tagName, link.attrName>> \notin TagTable
    [] k = 2 -> opts.excludeExternalLinks /\ link.internal = "false"
    [] k = 3 -> opts.excludeInternalLinks /\ link.internal = "true"
    [] k = 4 -> opts.excludeLinksToSamePage /\ link.samePage = "true"
    [] k = 5 -> link.protocol \in opts.excludedSchemes
    [] k = 6 -> opts.honorRobotExclusions /\ rob.blanket
    [] k = 7 -> opts.honorRobotExclusions /\ rob.noimageindex
                  /\ <<link.tagName, link.attrName>> \in
                       {<<"img", "src">>, <<"input", "src">>,
                        <<"menuitem", "icon">>, <<"video", "poster">>}
    [] k = 8 -> opts.honorRobotExclusions /\ link.relNofollow
    [] k = 9 -> link.keywords \cap opts.excludedKeywords # {}
    [] k = 10 -> IF link.custom.isObject THEN link.custom.excluded
                 ELSE ~link.custom.truthy

RuleReason(k, link) ==
  CASE k = 1 -> "BLC_HTML"
    [] k = 2 -> "BLC_EXTERNAL"
    [] k = 3 -> "BLC_INTERNAL"
    [] k = 4 -> "BLC_SAMEPAGE"
    [] k = 5 -> "BLC_SCHEME"
    [] k \in {6, 7, 8} -> "BLC_ROBOTS"
    [] k = 9 -> "BLC_KEYWORD"
    [] k = 10 -> IF link.custom.isObject THEN link.custom.excludedReason
                 ELSE "BLC_CUSTOM"

matching(opts, rob, link) == {k \in 1..10 : RuleMatches(k, opts, rob, link)}
earliest(S) == CHOOSE k \in S : \A j \in S : k <= j

\* C4: the filter chain is first-match-wins in the listed order: the reason
\* reported is that of the earliest-listed rule the link matches, and the link
\* is not excluded iff it matches no rule.
C4_FirstMatchWins ==
  result.fn = "maybeExcludeLink" =>
    LET m == matching(call.opts, call.rob, call.link)
    IN IF m = {} THEN result.value = NotExcluded
       ELSE /\ result.value = RuleReason(earliest(m), call.link)
            /\ result.value # NotExcluded

\* A link that matches several rules was filtered.
C4_Witness ==
  /\ result.fn = "maybeExcludeLink"
  /\ {1, 2, 5, 9, 10} \subseteq matching(call.opts, call.rob, call.link)


\* The recognised attribute occurrences of the scraped document that hold
\* several values.
multiValued ==
  LET nodes == walk(findRootNode(call.document))
  IN { a \in UNION {{nodes[n].attrs[i] : i \in DOMAIN nodes[n].attrs} :
                     n \in {m \in DOMAIN nodes : "attrs" \in DOMAIN nodes[m]}} :
         a.name \in {"ping", "srcset"} }
commas(s) == Cardinality({i \in DOMAIN s : s[i] = ","})

\* C6: the Links scrapeHtml returns carry the source indexes 0..N-1, without
\* gap or repeat, in document order (the source offsets never decrease with
\* the index), and a ping or srcset attribute contributes one consecutive
\* index per value.
C6_SourceIndexDense ==
  result.fn = "scrapeHtml" =>
    LET L == result.value.links
        N == Len(L)
    IN /\ \A k \in 1..N : L[k].index = k - 1
       /\ {L[k].index : k \in 1..N} = 0..(N - 1)
       /\ \A j, k \in 1..N : L[j].index < L[k].index => L[j].location <= L[k].location
       /\ \A j, k \in 1..N :
            (j # k /\ L[j].location = L[k].location) => L[j].attrName \in {"ping", "srcset"}
       /\ \A a \in multiValued :
            LET of == {k \in 1..N : L[k].location = a.location}
            IN /\ Cardinality(of) = commas(a.value) + 1
               /\ \A j, k \in of : \A m \in j..k : m \in of

\* A ping attribute with two values was scraped ahead of a later element's link.
C6_Witness ==
  /\ result.fn = "scrapeHtml"
  /\ \E k \in 1..(Len(result.value.links) - 3) :
       LET L == result.value.links
       IN /\ L[k].attrName = "ping" /\ L[k + 1].attrName = "ping"
          /\ L[k].url = <<"u">> /\ L[k + 1].url = <<"v">>
          /\ L[k + 2].attrName = "href" /\ L[k + 2].url = <<"w">>
          /\ L[k + 3].location > L[k + 2].location


Hosts == {HostOf(u) : u \in Urls}

\* C7: the number of checks in flight never exceeds options.maxSockets, and
\* the number in flight for one host never exceeds options.maxSocketsPerHost,
\* whatever the interleaving of enqueue, completion, pause, resume, dequeue.
C7_ConcurrencyBound ==
  /\ numActive(items) <= options.maxSockets
  /\ \A h \in Hosts : hostActive(items, h) <= options.maxSocketsPerHost

\* The global cap leaves room, yet an item waits because its host is at its cap.
C7_Witness ==
  /\ numActive(items) < options.maxSockets
  /\ \E k \in DOMAIN items :
       /\ items[k].state = "queued"
       /\ hostActive(items, items[k].host) = options.maxSocketsPerHost
  /\ ~paused

\* The step in which the check of item id settled.
Settled(id) == ret' # ret /\ ret'.op = "then" /\ ret'.id = id

\* The outcomes checkUrl() can settle an active item with.
canSettle(it) == {o \in Outcomes : it.cached => o = it.outcome}

\* C8: the check queue always advances. Every started item can settle, with
\* whatever outcome; the step in which it settles first emits a "link" that
\* carries the item and its customData and then calls done(): the item leaves
\* the queue, and every waiting item the caps allow is started.
C8_QueueAdvances ==
  /\ [](\A k \in DOMAIN items :
          items[k].state = "active" =>
            /\ ~items[k].notified
            /\ canSettle(items[k]) # {}
            /\ \A o \in canSettle(items[k]) : ENABLED CheckDone(items[k].id, o))
  /\ [][\A id \in ItemIds :
          Settled(id) =>
            /\ hasItem(items, id)
            /\ itemOf(items, id).state = "active"
            /\ Len(emitted') >= 1
            /\ emitted'[1].ev = "link"
            /\ emitted'[1].id = id
            /\ emitted'[1].customData = itemOf(items, id).customData
            /\ emitted'[1].outcome \in Outcomes
            /\ ~hasItem(items', id)
            /\ ~paused =>
                 \A k \in DOMAIN items' :
                   items'[k].state = "queued" =>
                     \/ numActive(items') >= options.maxSockets
                     \/ hostActive(items', items'[k].host) >= options.maxSocketsPerHost]_vars

\* A check that found its URL broken settled, and the item behind it started.
C8_Witness ==
  /\ ret.op = "then"
  /\ Len(emitted) >= 1 /\ emitted[1].ev = "link" /\ emitted[1].outcome = "broken"
  /\ emitted[1].customData = "d1"
  /\ \E k \in DOMAIN items : items[k].state = "active" /\ items[k].id > ret.id

\* C9: "end" fires exactly once per drain: the completion that leaves the
\* queue with no active and no waiting item emits exactly one "end", after
\* the "link" of the completing item; no step emits "end" while an item is
\* still active or waiting, and no step emits it twice.
C9_EndOncePerDrain ==
  [][/\ \A id \in ItemIds :
          (Settled(id) /\ queueDrained(items')) =>
            /\ ~queueDrained(items)
            /\ ends' = ends + 1
            /\ Len(emitted') = 2
            /\ emitted'[1].ev = "link" /\ emitted'[1].id = id
            /\ emitted'[2].ev = "end"
     /\ ends' # ends =>
          /\ ends' = ends + 1
          /\ queueDrained(items')
          /\ \E id \in ItemIds : Settled(id)
     /\ (ends' = ends /\ emitted' # emitted) =>
          \A i \in DOMAIN emitted' : emitted'[i].ev # "end"]_vars

\* The queue drained a second time.
C9_Witness ==
  /\ ends = 2 /\ items = <<>>
  /\ Len(emitted) = 2 /\ emitted[1].ev = "link" /\ emitted[2].ev = "end"

\* C10: cache round-trip. When an item settles whose URL had been fetched
\* before the item started, its result is cached = true with the outcome of
\* that fetch if the item started within cacheExpiryTime of it, and is
\* cached = false (the URL is fetched again) if the entry had expired.
C10_CacheRoundTrip ==
  [][\A id \in ItemIds :
       (Settled(id) /\ hasItem(items, id) /\ itemOf(items, id).prevSet) =>
          LET it == itemOf(items, id)
              e == emitted'[1]
          IN IF it.startAt < it.prevAt + options.cacheExpiryTime
             THEN e.cached /\ e.outcome = it.prevOutcome
             ELSE /\ ~e.cached
                  /\ lastCheck'[it.url] = [set |-> TRUE, outcome |-> e.outcome,
                                            at |-> now, dropped |-> FALSE]]_vars

\* A second check of a URL found broken was answered from the cache.
C10_Witness ==
  /\ ret.op = "then" /\ ret.id = 2
  /\ Len(emitted) >= 1 /\ emitted[1].ev = "link"
  /\ emitted[1].cached /\ emitted[1].outcome = "broken"

\* A second check of a URL started after the entry had expired.
C10_Expired ==
  /\ ret.op = "then" /\ ret.id = 2
  /\ Len(emitted) >= 1 /\ emitted[1].ev = "link"
  /\ ~emitted[1].cached /\ lastCheck["u1"].at = 1 /\ now = 1
  /\ nextId = 3 /\ items = <<>>


\* The step in which clearCache() was called and returned.
ClearCacheCalled == ret' # ret /\ ret'.op = "clearCache"

\* C11: clearCache() drops every cached outcome at once, changes nothing
\* else (the waiting and the active items stay as they are, nothing is
\* emitted) and returns the instance; a check that starts after it, for a URL
\* whose outcome it dropped, is not answered from the cache: it is fetched
\* afresh and reported with cached = false.
C11_ClearCacheDropsAll ==
  [][/\ ClearCacheCalled =>
          /\ \A u \in Urls : ~cache'[u].set
          /\ ret'.ok
          /\ emitted' = <<>>
          /\ UNCHANGED <<options, hvars, pendingParse, doc, scanLinks, items,
                         nextId, paused, now, accepted, completes, ends>>
     /\ \A k \in DOMAIN items' :
          (items'[k].state = "active" /\ items'[k].prevDropped) => ~items'[k].cached
     /\ \A id \in ItemIds :
          (Settled(id) /\ hasItem(items, id) /\ itemOf(items, id).prevDropped) =>
             /\ ~emitted'[1].cached
             /\ lastCheck'[itemOf(items, id).url] =
                  [set |-> TRUE, outcome |-> emitted'[1].outcome, at |-> now,
                   dropped |-> FALSE]]_vars

\* A check is in flight that started, within the expiry window, after
\* clearCache() dropped the outcome stored for its URL.
C11_Witness ==
  \E k \in DOMAIN items :
    /\ items[k].state = "active" /\ items[k].prevDropped /\ ~items[k].cached
    /\ items[k].startAt = 0 /\ cache = EmptyCache


\* A waiting item of its that the caps of the options would let start.
startable(its) ==
  {k \in DOMAIN its :
     /\ its[k].state = "queued"
     /\ numActive(its) < options.maxSockets
     /\ hostActive(its, its[k].host) < options.maxSocketsPerHost}

\* C12: between pause() and the next resume() no waiting item is started and
\* numActive does not grow; the checks in flight still settle and are
\* notified as usual; while paused items wait, neither "end" nor "complete"
\* is emitted; resume() starts the waiting items, as far as the caps allow.
C12_PauseResume ==
  /\ [](paused =>
          \A k \in DOMAIN items :
            items[k].state = "active" => ENABLED NetCheckDone(items[k].id))
  /\ [][/\ (paused /\ paused') =>
             /\ numActive(items') <= numActive(items)
             /\ \A k \in DOMAIN items' : \A j \in DOMAIN items :
                  (items'[k].id = items[j].id /\ items[j].state = "queued")
                     => items'[k].state = "queued"
             /\ \A k \in DOMAIN items' :
                  (\A j \in DOMAIN items : items[j].id # items'[k].id)
                     => items'[k].state = "queued"
             /\ numQueued(items') > 0 => ends' = ends /\ completes' = completes
             /\ \A id \in ItemIds :
                  Settled(id) =>
                    /\ emitted'[1].ev = "link" /\ emitted'[1].id = id
                    /\ ~hasItem(items', id)
        /\ (paused /\ ~paused') =>
             /\ startable(items') = {}
             /\ numActive(items') <= options.maxSockets
             /\ \A k \in DOMAIN items : \E j \in DOMAIN items' :
                  items'[j].id = items[k].id
             /\ (startable(items) # {}) => numActive(items') > numActive(items)
             /\ ends' = ends /\ completes' = completes]_vars

\* While the queue is paused a check in flight settled and was notified; the
\* item behind it still waits and the scan has not completed.
C12_Witness ==
  /\ paused /\ active
  /\ ret.op = "then" /\ ret.id > 0
  /\ Len(emitted) = 1 /\ emitted[1].ev = "link"
  /\ numActive(items) = 0 /\ numQueued(items) > 0
  /\ startable(items) # {}


\* The step in which dequeue(id) was called and returned.
DequeueCalled(id) == ret' # ret /\ ret'.op = "dequeue" /\ ret'.id = id

\* C13: dequeue(id) of a waiting item returns true and removes it: numQueued
\* drops by one, the other items stay as they are, and the item is never
\* checked and never notified (an id that has left the queue never comes
\* back and no "link" is emitted for it). dequeue(id) of an id never issued
\* returns false and leaves the queue and its counts unchanged.
C13_Dequeue ==
  [][\A id \in ItemIds :
       /\ (DequeueCalled(id) /\ hasItem(items, id)
             /\ itemOf(items, id).state = "queued") =>
            /\ ret'.ok
            /\ ~itemOf(items, id).notified
            /\ ~hasItem(items', id)
            /\ numQueued(items') = numQueued(items) - 1
            /\ numActive(items') = numActive(items)
            /\ items' = SelectSeq(items, LAMBDA it : it.id # id)
            /\ emitted' = <<>>
       /\ (DequeueCalled(id) /\ id >= nextId) =>
            /\ ~ret'.ok
            /\ items' = items /\ nextId' = nextId
            /\ emitted' = <<>>
       /\ (id < nextId /\ ~hasItem(items, id)) =>
            /\ ~hasItem(items', id)
            /\ emitted' # emitted =>
                 \A i \in DOMAIN emitted' :
                   ~(emitted'[i].ev = "link" /\ emitted'[i].id = id)]_vars

\* An item that waited behind a check in flight was dequeued.
C13_Witness ==
  /\ ret.op = "dequeue" /\ ret.ok /\ ret.id = 2
  /\ ~hasItem(items, 2) /\ nextId = 3
  /\ numActive(items) = 1 /\ ~paused

\* dequeue() of an id that was never issued was refused.
C13_Refused ==
  /\ ret.op = "dequeue" /\ ~ret.ok /\ ret.id = nextId
  /\ numQueued(items) = 1 /\ paused


\* The Links of the scanned document that pass the filter chain and cannot
\* be scheduled, and those that pass it and can.
invalidLinks ==
  {i \in DOMAIN scanLinks : ~scanLinks[i].excluded /\ doc.links[i].url = InvalidUrl}
schedulable(sl, d) ==
  {i \in DOMAIN sl : ~sl[i].excluded /\ d.links[i].url # InvalidUrl}

\* C14: a non-excluded Link that cannot be scheduled is reported at once by
\* one "link" notification with broken = true and reason BLC_INVALID; it
\* never enters the queue and is never checked; the filter pass returns
\* normally and goes on through the remaining candidates.
C14_InvalidLinkReported ==
  /\ [](/\ \A i \in invalidLinks :
             /\ scanLinks[i].linkN = 1 /\ scanLinks[i].junkN = 0
             /\ scanLinks[i].broken = "true"
             /\ scanLinks[i].brokenReason = "BLC_INVALID"
             /\ scanLinks[i].itemId = 0
             /\ queuedFor(i) = {}
             /\ scanLinks[i].outcome = NoOutcome
        /\ (~pendingParse /\ accepted > 0) => Len(scanLinks) = Len(doc.links))
  /\ [][(pendingParse /\ ~pendingParse') =>
          /\ ret'.op = "then" /\ ret'.ok
          /\ Len(scanLinks') = Len(doc.links)
          /\ \A i \in DOMAIN scanLinks' :
               (~scanLinks'[i].excluded /\ doc.links[i].url = InvalidUrl) =>
                  Cardinality({n \in DOMAIN emitted' :
                                 emitted'[n] = Ev("link", i)}) = 1
          /\ Len(items') = Len(items) + Cardinality(schedulable(scanLinks', doc))
          /\ nextId' = nextId + Cardinality(schedulable(scanLinks', doc))]_vars

\* A Link that cannot be scheduled was reported, and the Link after it went
\* into the queue.
C14_Witness ==
  /\ Len(scanLinks) = 2 /\ 1 \in invalidLinks
  /\ scanLinks[1].brokenReason = "BLC_INVALID"
  /\ ~scanLinks[2].excluded /\ scanLinks[2].itemId > 0
  /\ emitted = <<Ev("html", 0), Ev("link", 1)>>
  /\ active


\* The parse of the running scan failed in this step.
ParseRejected == ret' # ret /\ ret'.op = "rejected"

\* C15: a page whose HTML cannot be parsed does not wedge the instance:
\* once the parse has failed the instance is Idle again (or has work pending
\* that will make it Idle), and a scan() called when nothing of an earlier
\* scan is pending is accepted.
C15_ParseFailureRecovers ==
  [][/\ ParseRejected => (~active' \/ WorkPending')
     /\ (ScanCalled /\ ~WorkPending) => ret'.ok]_vars

\* The parse failed, nothing is pending, and a later scan() was refused.
C15_Wedged ==
  /\ active /\ ~parsed /\ ~pendingParse /\ ~WorkPending
  /\ ret.op = "scan" /\ ~ret.ok


\* The then-callback of a scan whose page carries a document-wide noindex,
\* under honorRobotExclusions.
RobotsPageFiltered ==
  /\ pendingParse /\ ~pendingParse' /\ ret'.op = "then"
  /\ options.honorRobotExclusions /\ doc.meta = "noindex"

\* The rules listed before the robots rules that a Link matches.
earlierRules(opts, link) == {k \in 1..5 : RuleMatches(k, opts, RobotsEmpty, link)}

junkOnly(n) ==
  <<Ev("html", 0)>> \o [i \in 1..n |-> Ev("junk", i)] \o <<Ev("complete", 0)>>

\* C16 as stated: with honorRobotExclusions and a document-wide
\* noindex/nofollow, every candidate Link of the page is excluded with reason
\* BLC_ROBOTS, and the scan emits no "link": only "junk", then "complete".
C16_AllRobots ==
  [][RobotsPageFiltered =>
       /\ Len(scanLinks') = Len(doc.links)
       /\ \A i \in DOMAIN scanLinks' :
            /\ scanLinks'[i].excluded /\ scanLinks'[i].junkN = 1
            /\ scanLinks'[i].linkN = 0
            /\ scanLinks'[i].excludedReason = "BLC_ROBOTS"
       /\ emitted' = junkOnly(Len(doc.links))
       /\ items' = <<>> /\ ~active']_vars

\* C16, amended: with honorRobotExclusions and a document-wide
\* noindex/nofollow, every candidate Link of the page is excluded and the
\* scan emits no "link": only one "junk" per Link in document order, then
\* "complete". The reason is BLC_ROBOTS for every Link that none of the
\* rules listed before the robots rules matches, and the reason of the
\* earliest of those rules otherwise.
C16_AllExcluded ==
  [][RobotsPageFiltered =>
       /\ Len(scanLinks') = Len(doc.links)
       /\ \A i \in DOMAIN scanLinks' :
            /\ scanLinks'[i].excluded /\ scanLinks'[i].junkN = 1
            /\ scanLinks'[i].linkN = 0
            /\ scanLinks'[i].excludedReason =
                 LET m == earlierRules(options, doc.links[i])
                 IN IF m = {} THEN "BLC_ROBOTS"
                    ELSE RuleReason(earliest(m), doc.links[i])
       /\ emitted' = junkOnly(Len(doc.links))
       /\ items' = <<>> /\ ~active']_vars

\* A page with noindex was scanned under honorRobotExclusions: one Link went
\* out for its scheme, the next for the robots directive.
C16_Witness ==
  /\ options.honorRobotExclusions /\ doc.meta = "noindex"
  /\ Len(scanLinks) = 2
  /\ scanLinks[1].excludedReason = "BLC_SCHEME"
  /\ scanLinks[2].excludedReason = "BLC_ROBOTS"
  /\ emitted = junkOnly(2)
  /\ ~active /\ completes = 1


\* C17: a scan of a page that yields no Links emits "html" and then, in the
\* same callback, "complete": with no item active or waiting, without any
\* "link" or "junk", and without waiting for the queue's "end".
C17_EmptyPageCompletes ==
  [][(pendingParse /\ ~pendingParse' /\ ret'.op = "then" /\ doc.links = <<>>) =>
       /\ emitted' = <<Ev("html", 0), Ev("complete", 0)>>
       /\ numActive(items') = 0 /\ numQueued(items') = 0
       /\ items' = items
       /\ scanLinks' = <<>>
       /\ ends' = ends
       /\ completes' = completes + 1
       /\ ~active' /\ ~parsed']_vars

\* A page without Links was scanned and completed; the queue never fired "end".
C17_Witness ==
  /\ accepted = 1 /\ completes = 1 /\ ~active
  /\ doc.links = <<>>
  /\ emitted = <<Ev("html", 0), Ev("complete", 0)>>
  /\ ends = 0 /\ items = <<>>


\* The checks in flight for Links of the running scan: checkUrl(data.link,
\* data.auth, ...) was called and has not resolved.
checksInFlight ==
  {k \in DOMAIN items : /\ items[k].state = "active" /\ items[k].idx > 0
                        /\ items[k].scan = accepted}

\* C18: transitive credentials never cross origins: the page's credentials
\* accompany the check of a Link only if the Link resolves to the page's
\* origin; a Link to another host is never checked with them.
C18_CredentialsSameOrigin ==
  \A k \in checksInFlight :
     items[k].auth # NoAuth => doc.links[items[k].idx].internal = "true"

\* The check of a Link to another host is in flight with the credentials of
\* the page URL.
C18_CrossOrigin ==
  \E k \in checksInFlight :
     /\ items[k].auth = "user:pass" /\ auth = "user:pass"
     /\ doc.links[items[k].idx].internal = "false"
     /\ items[k].host # HostOf(LinkA.url)


\* The occurrences, in the scraped document, of a recognised attribute other
\* than content, ping and srcset.
ordinaryAttrs ==
  LET nodes == walk(findRootNode(call.document))
  IN UNION {{nodes[n].attrs[i] : i \in
               {j \in DOMAIN nodes[n].attrs :
                  nodes[n].attrs[j].name \in
                    maxFilterLevel[nodes[n].nodeName] \ {"content", "ping", "srcset"}}} :
            n \in {m \in DOMAIN nodes : /\ "attrs" \in DOMAIN nodes[m]
                                        /\ nodes[m].nodeName \in DOMAIN maxFilterLevel}}

\* C19: for a recognised attribute other than content, ping and srcset the
\* candidate URL is the attribute's value without the surrounding whitespace,
\* and an attribute whose value is empty after trimming is not a candidate:
\* it yields no Link and takes no source index.
C19_OrdinaryAttributes ==
  result.fn = "scrapeHtml" =>
    LET L == result.value.links
    IN \A a \in ordinaryAttrs :
         LET of == {k \in DOMAIN L : L[k].location = a.location}
         IN IF trim(a.value) = <<>> THEN of = {}
            ELSE /\ Cardinality(of) = 1
                 /\ \A k \in of : L[k].url = trim(a.value) /\ L[k].attrName = a.name

\* An href that holds only whitespace became a Link with an empty URL, and
\* the Link after it has the next source index.
C19_EmptyCandidate ==
  /\ result.fn = "scrapeHtml"
  /\ Len(result.value.links) = 2
  /\ result.value.links[1].attrName = "href" /\ result.value.links[1].url = <<>>
  /\ result.value.links[1].index = 0
  /\ result.value.links[2].url = <<"u">> /\ result.value.links[2].index = 1

\* The <base> elements of the scraped document, by position in walk order.
baseElements(withHref(_)) ==
  LET nodes == walk(findRootNode(call.document))
  IN {n \in DOMAIN nodes : nodes[n].nodeName = "base" /\ withHref(nodes[n])}
hrefOf(n) == trim(attrMap(walk(findRootNode(call.document))[n], "href"))
hasHref(node) == "href" \in attrNames(node)
hasNonEmptyHref(node) == hasHref(node) /\ trim(attrMap(node, "href")) # <<>>
baseOfFirst(bases) ==
  IF bases = {} THEN NoBase
  ELSE [isNull |-> FALSE, href |-> hrefOf(CHOOSE n \in bases : \A m \in bases : n <= m)]

\* C20 as stated: the base stamped on every Link is the trimmed href of the
\* first <base> in document order that has a non-empty href; a <base> without
\* one is skipped, a later <base> never overrides, and the base is null when
\* there is none.
C20_FirstNonEmptyBase ==
  result.fn = "scrapeHtml" =>
    \A k \in DOMAIN result.value.links :
       result.value.links[k].base = baseOfFirst(baseElements(hasNonEmptyHref))

\* C20, amended: the base stamped on every Link is the trimmed href of the
\* first <base> in document order that has an href attribute, empty or not; a
\* <base> without the attribute is skipped, a later <base> never overrides,
\* and the base is null when no <base> has the attribute.
C20_FirstBaseWithHref ==
  result.fn = "scrapeHtml" =>
    \A k \in DOMAIN result.value.links :
       result.value.links[k].base = baseOfFirst(baseElements(hasHref))

\* A <base> without href was skipped, and the <base href> after it is the
\* base of the document's Link.
C20_Witness ==
  /\ result.fn = "scrapeHtml"
  /\ Len(result.value.links) = 1
  /\ result.value.links[1].base = [isNull |-> FALSE, href |-> <<"c">>]
  /\ Cardinality(baseElements(LAMBDA n : TRUE)) = 2
  /\ Cardinality(baseElements(hasHref)) = 1

\* A <base href> that holds only whitespace is the base, and the <base> after
\* it did not replace it.
C20_EmptyBase ==
  /\ result.fn = "scrapeHtml"
  /\ Len(result.value.links) = 1
  /\ result.value.links[1].base = [isNull |-> FALSE, href |-> <<>>]
  /\ Cardinality(baseElements(hasNonEmptyHref)) = 1


\* Positions, in the notifications of one step, of those with the given names.
positions(evs, names) == {n \in DOMAIN evs : evs[n].ev \in names}

\* C21: within one scan "html" is emitted once, before any "junk" or "link"
\* of the scan; "junk" and the immediate "link" of an unschedulable Link come
\* in document order; "complete" comes after every "junk" and every "link"
\* of the scan, the queue-driven ones included.
C21_NotificationOrder ==
  /\ [](/\ pendingParse => (items = <<>> /\ scanLinks = <<>>)
        /\ (active /\ ~pendingParse) => parsed)
  /\ [][  /\ (pendingParse /\ ~pendingParse') =>
             /\ positions(emitted', {"html"}) = {1}
             /\ \A m, n \in positions(emitted', {"junk", "link"}) :
                  m < n => emitted'[m].id < emitted'[n].id
             /\ \A n \in positions(emitted', {"junk", "link"}) :
                  /\ emitted'[n].id \in DOMAIN doc.links
                  /\ (emitted'[n].ev = "junk") <=> scanLinks'[emitted'[n].id].excluded
          /\ (positions(emitted', {"html"}) # {}) => (pendingParse /\ ~pendingParse')
          /\ (positions(emitted', {"complete"}) # {}) =>
               /\ positions(emitted', {"complete"}) = {Len(emitted')}
               /\ ~pendingParse'
               /\ items' = <<>>
               /\ Len(scanLinks') = Len(doc.links)
               /\ \A i \in DOMAIN scanLinks' :
                    scanLinks'[i].junkN + scanLinks'[i].linkN = 1
          /\ (~active /\ ~active') => (positions(emitted', {"junk", "link"}) = {})]_vars

\* One filter pass emitted "html", the "junk" of the first Link, the "link"
\* of the unschedulable second Link, and "complete".
C21_Witness ==
  /\ emitted = <<Ev("html", 0), Ev("junk", 1), Ev("link", 2), Ev("complete", 0)>>
  /\ ~active

\* "complete" followed the queue-driven "link" of the scan's last check.
C21_QueueDriven ==
  /\ Len(emitted) = 3 /\ emitted[1].ev = "link" /\ emitted[2].ev = "end"
  /\ emitted[3].ev = "complete"
  /\ Len(scanLinks) = 2 /\ scanLinks[1].linkN = 1 /\ scanLinks[2].linkN = 1
  /\ scanLinks[1].itemId > 0 /\ scanLinks[2].itemId > 0


\* The Links of the scanned document whose URL cannot be parsed, and the
\* exclusion rules each of them matches under the scan's options and robots
\* directives.
unparsable == {i \in DOMAIN scanLinks : doc.links[i].url = InvalidUrl}
rulesFor(i) == matching(options, robotsAfterScrape(RobotsEmpty, doc), doc.links[i])

\* C22 as stated: schedulability is decided before exclusion, so an
\* unparsable candidate is always reported by a "link" with broken = true and
\* reason BLC_INVALID and never by a "junk", whatever the exclusion options.
C22_InvalidBeforeExclusion ==
  \A i \in unparsable :
     /\ ~scanLinks[i].excluded
     /\ scanLinks[i].linkN = 1 /\ scanLinks[i].junkN = 0
     /\ scanLinks[i].broken = "true" /\ scanLinks[i].brokenReason = "BLC_INVALID"

\* C22, amended: exclusion is decided before schedulability. An unparsable
\* candidate that no exclusion rule matches is reported by a "link" with
\* broken = true and reason BLC_INVALID and never by a "junk"; one that an
\* exclusion rule matches is reported by a "junk" with the reason of the
\* earliest such rule and never by a "link". Neither enters the queue.
C22_ExclusionBeforeInvalid ==
  \A i \in unparsable :
     /\ scanLinks[i].itemId = 0 /\ queuedFor(i) = {}
     /\ IF rulesFor(i) = {}
        THEN /\ ~scanLinks[i].excluded
             /\ scanLinks[i].linkN = 1 /\ scanLinks[i].junkN = 0
             /\ scanLinks[i].broken = "true"
             /\ scanLinks[i].brokenReason = "BLC_INVALID"
        ELSE /\ scanLinks[i].excluded
             /\ scanLinks[i].excludedReason = RuleReason(earliest(rulesFor(i)), doc.links[i])
             /\ scanLinks[i].junkN = 1 /\ scanLinks[i].linkN = 0
             /\ scanLinks[i].broken = "null"

\* Of the two unparsable candidates of a page, the one in an unsupported
\* attribute went out as "junk" and the other was reported as an invalid "link".
C22_Witness ==
  /\ Len(scanLinks) = 2 /\ unparsable = {1, 2}
  /\ scanLinks[1].excluded /\ scanLinks[1].excludedReason = "BLC_HTML"
  /\ scanLinks[1].junkN = 1 /\ scanLinks[1].linkN = 0
  /\ scanLinks[2].brokenReason = "BLC_INVALID" /\ scanLinks[2].linkN = 1
  /\ emitted = <<Ev("html", 0), Ev("junk", 1), Ev("link", 2), Ev("complete", 0)>>


\* The per-scan fields as reset() leaves them.
perScanReset(a, au, b, r, e, p) ==
  /\ a = FALSE /\ au = NoAuth /\ b = Undefined
  /\ r = RobotsNull /\ e = 0 /\ p = FALSE

\* The check that settles in this step fetched url afresh.
settlesFresh(url) ==
  /\ ret'.op = "then" /\ ret'.id > 0 /\ hasItem(items, ret'.id)
  /\ itemOf(items, ret'.id).url = url
  /\ ~itemOf(items, ret'.id).cached

\* C23: completion resets the per-scan state and nothing else. After
\* "complete" the fields active, parsed, auth, baseUrl, robots and the
\* exclusion counter have their reset values, so each scan stamps and
\* excludes its Links from its own document alone; the outcome cache is left
\* as it is, so a URL checked in one scan is answered from the cache
\* (cached = true) when a later scan on the instance checks it again.
C23_CompletionResets ==
  /\ [](/\ ~active => perScanReset(active, auth, baseUrl, robots, excludedLinks, parsed)
        /\ \A i \in DOMAIN scanLinks :
             /\ scanLinks[i].excluded <=> (rulesFor(i) # {})
             /\ scanLinks[i].offsetIndex =
                  IF scanLinks[i].excluded THEN excludedBefore(i)
                  ELSE scrapeIndex(i) - excludedBefore(i))
  /\ [][  /\ (completes' # completes) =>
               /\ perScanReset(active', auth', baseUrl', robots', excludedLinks', parsed')
               /\ UNCHANGED <<options, paused, now, nextId, accepted, doc>>
               /\ \A u \in Urls :
                    /\ cache[u].set => cache'[u].set
                    /\ cache'[u] # cache[u] => settlesFresh(u)
          /\ (pendingParse /\ ~pendingParse') =>
               \A k \in DOMAIN items' :
                  items'[k].state = "active" =>
                     /\ items'[k].cached <=> cacheLive(cache, items'[k].url, now)
                     /\ items'[k].cached => items'[k].outcome = cache[items'[k].url].outcome
       ]_vars

\* The second scan of the instance completed; its first Link was excluded with
\* offsetIndex 0 and its second, checked by the first scan too, was answered
\* from the cache.
C23_Witness ==
  /\ accepted = 2 /\ completes = 2 /\ ~active /\ excludedLinks = 0
  /\ Len(scanLinks) = 2
  /\ scanLinks[1].excluded /\ scanLinks[1].offsetIndex = 0
  /\ ~scanLinks[2].excluded /\ scanLinks[2].offsetIndex = 0
  /\ scanLinks[2].linkN = 1 /\ scanLinks[2].cached
  /\ lastCheck[doc.links[2].url].set /\ ~lastCheck[doc.links[2].url].dropped


\* C24: when "complete" listeners run the instance is already Idle with the
\* per-scan fields reset: a scan() called from inside a "complete" listener
\* returns true and starts a new scan, and a scan() called from inside an
\* "html", "junk" or "link" listener of the running scan returns false.
C24_ScanFromListener ==
  /\ [](result.fn = "listener" =>
          \A n \in DOMAIN result.value :
             result.value[n] <=> (call.on = "complete"))
  /\ [][  /\ (completes' # completes /\ call.on = "complete" /\ accepted < MaxScans) =>
               /\ result'.value = <<TRUE>>
               /\ active' /\ pendingParse' /\ ~parsed'
               /\ accepted' = accepted + 1
               /\ doc' = ListenerDoc /\ scanLinks' = <<>>
               /\ excludedLinks' = 0 /\ auth' = NoAuth /\ robots' = RobotsEmpty
               /\ emitted'[Len(emitted')] = Ev("complete", 0)
          /\ (call.on # "complete" /\ result' # result) =>
               /\ accepted' = accepted
               /\ (active' <=> (completes' = completes))
       ]_vars

\* A scan() called from inside the "complete" listener of the first scan was
\* accepted: the first scan is complete and the second is running.
C24_Witness ==
  /\ call.on = "complete" /\ result.fn = "listener" /\ result.value = <<TRUE>>
  /\ accepted = 2 /\ completes = 1 /\ active /\ pendingParse
  /\ Len(emitted) = 3 /\ emitted[1].ev = "link" /\ emitted[3].ev = "complete"

\* A scan() called from inside the "link" listener of the running scan was
\* refused, for a Link reported at once and for a Link reported by the queue.
C24_Refused ==
  /\ call.on = "link" /\ result.fn = "listener" /\ result.value = <<FALSE>>
  /\ accepted = 1 /\ Len(emitted) = 3 /\ emitted[2].ev = "link"
  /\ emitted[2].outcome = NoOutcome /\ emitted[3].ev = "complete" /\ ~active

C24_RefusedFromQueue ==
  /\ call.on = "link" /\ result.fn = "listener" /\ result.value = <<FALSE>>
  /\ accepted = 1 /\ Len(emitted) = 3 /\ emitted[1].ev = "link"
  /\ emitted[1].outcome # NoOutcome /\ emitted[3].ev = "complete" /\ ~active

====
